---------------------------- MODULE Spec2Model ----------------------------
(***************************************************************************)
(* CLARA_VISIO: photon -> photoreceptor light-drive pipeline.              *)
(*                                                                         *)
(*   Stimulus/Light/photon_driver.py   _time_bin_index,                    *)
(*                                     _gaussian_psf_weights,              *)
(*                                     build_L_series_for_cones / _rods    *)
(*   Cells/Retina/cones.py             cone_sensitivity_nm                 *)
(*   .../MaculaLutea/input_layer.py    photoreceptor_profile               *)
(*   Utils/hexagonal_layer.py          make_hex_circular_patch             *)
(*                                                                         *)
(* Numbers.  Times are integers (ticks), positions are integers (um).      *)
(* The sums, differences and quotients of times are rounded to floats of   *)
(* SigBits significant bits, as the window test and the bin index depend   *)
(* on that rounding.  Weights and light-drive values are exact rationals   *)
(* <<n, d>>, d > 0, in lowest terms, so the rounding of their float64 sums *)
(* and quotients (a few ulp) is not part of the model.  exp() is evaluated *)
(* to two decimals (ExpTable), and to exactly 0 where float64 underflows   *)
(* (ExpUnderflow).                                                         *)
(***************************************************************************)
EXTENDS Integers, Sequences, FiniteSets, TLC

VARIABLES
    fn,          \* aggregator being run: "cones" | "rods" | "none"
    photons,     \* the photon list of the call
    positions,   \* cone_positions (a dict) or rod_positions (an array or None)
    params,      \* [T, dt, t0, sigma_um, photons_per_L1]
    L_series,    \* the output arrays being accumulated / returned
    idx,         \* number of photons the loop has consumed
    pc,          \* "idle" | "loop" | "normalize" | "returned" | "raised"
    exc,         \* name of the exception that ended the call, "" if none
    psf_call,    \* arguments of a direct _gaussian_psf_weights call
    psf_ret,     \* its result: <<>> before the call, <<result>> after
    ecc_um,      \* argument of photoreceptor_profile
    profile,     \* its result: <<>> before the call, <<record>> after
    patch_args,  \* arguments of make_hex_circular_patch
    patch,       \* its result: <<>> before the call, <<HexPatch>> after
    heap,        \* objects of two aggregator calls that share their inputs
    heap0,       \* the heap as it was when the two calls were made
    calls        \* the frames of the two calls

vars == <<fn, photons, positions, params, L_series, idx, pc, exc,
          psf_call, psf_ret, ecc_um, profile, patch_args, patch,
          heap, heap0, calls>>

aggVars == <<fn, photons, positions, params, L_series, idx, pc, exc>>
psfVars == <<psf_call, psf_ret>>
profVars == <<ecc_um, profile>>
patchVars == <<patch_args, patch>>
sharedVars == <<heap, heap0, calls>>
nonAggVars == <<psfVars, profVars, patchVars, sharedVars>>
nonPsfVars == <<aggVars, profVars, patchVars, sharedVars>>
nonProfVars == <<aggVars, psfVars, patchVars, sharedVars>>
nonPatchVars == <<aggVars, psfVars, profVars, sharedVars>>
nonSharedVars == <<aggVars, psfVars, profVars, patchVars>>

-----------------------------------------------------------------------------
(* Optional values (Python None) and small helpers                          *)

None == <<>>
Some(v) == <<v>>
IsNone(o) == o = <<>>
Val(o) == o[1]

Abs(a) == IF a < 0 THEN -a ELSE a

RECURSIVE GCD(_, _)
GCD(a, b) == IF b = 0 THEN a ELSE GCD(b, a % b)

\* floor and ceiling of a / b for b > 0 (Python //, np.ceil)
FloorDiv(a, b) == a \div b
CeilDiv(a, b) == -((-a) \div b)

(* Exact rationals <<n, d>>, d > 0, lowest terms                            *)
Rat(n, d) ==
    LET g == GCD(Abs(n), Abs(d))
        s == IF d < 0 THEN -1 ELSE 1
    IN  <<s * (n \div g), s * (d \div g)>>
RZero == <<0, 1>>
ROne == <<1, 1>>
RAdd(p, q) ==
    LET g == GCD(p[2], q[2])
    IN  Rat(p[1] * (q[2] \div g) + q[1] * (p[2] \div g), (p[2] \div g) * q[2])
RMul(p, q) == Rat(p[1] * q[1], p[2] * q[2])
RLe(p, q) == p[1] * q[2] <= q[1] * p[2]
RLt(p, q) == p[1] * q[2] < q[1] * p[2]

RECURSIVE RSum(_)
RSum(s) == IF s = <<>> THEN RZero ELSE RAdd(s[1], RSum(Tail(s)))

RECURSIVE ISum(_)
ISum(s) == IF s = <<>> THEN 0 ELSE s[1] + ISum(Tail(s))

-----------------------------------------------------------------------------
(* Bounds of the checked instances                                          *)

MaxPhotons == 2      \* photon lists of length 0..MaxPhotons
SigBits == 4         \* bits of the significand of a float
MaxReceptors == 2    \* receptors per type 0..MaxReceptors
MaxCoord == 4        \* photon and receptor x in 0..MaxCoord (um)
FarCoord == 40       \* x of a photon far from every receptor (um)
MaxTime == 3         \* photon arrival times in 0..MaxTime (ticks)

-----------------------------------------------------------------------------
(* Floating-point times                                                     *)

\* Times (t, t0, T, dt) are integers in units of the finest time step.  A
\* float holds SigBits significant bits; the result of +, - and / is the
\* nearest float, ties to the even significand (IEEE 754 round to nearest).
RECURSIVE Pow2(_)
Pow2(n) == IF n = 0 THEN 1 ELSE 2 * Pow2(n - 1)

\* the significands are the integers below 2^SigBits
SigLimit == Pow2(SigBits)

\* n / d rounded to the nearest integer, ties to even; n >= 0, d > 0
RoundHalfEven(n, d) ==
    LET q == n \div d
        r == n % d
    IN  IF 2 * r < d THEN q
        ELSE IF 2 * r > d THEN q + 1
        ELSE IF q % 2 = 0 THEN q ELSE q + 1

RECURSIVE ExponentUp(_, _, _)
\* the least e >= 0 with n / d < 2^SigBits * 2^e
ExponentUp(n, d, e) ==
    IF n < SigLimit * Pow2(e) * d THEN e ELSE ExponentUp(n, d, e + 1)

RECURSIVE ExponentDown(_, _, _)
\* the least k >= 0 with n * 2^k / d >= 2^(SigBits - 1), for n > 0
ExponentDown(n, d, k) ==
    IF 2 * n * Pow2(k) >= SigLimit * d THEN k ELSE ExponentDown(n, d, k + 1)

\* the float nearest to n / d, as a fraction; n >= 0, d > 0; a quotient
\* that is an integer of at most SigBits bits is a float
FlRat(n, d) ==
    IF n % d = 0 /\ n \div d < SigLimit THEN <<n \div d, 1>>
    ELSE LET e == ExponentUp(n, d, 0)
             k == ExponentDown(n, d, 0)
         IN  IF e > 0 THEN Rat(RoundHalfEven(n, d * Pow2(e)) * Pow2(e), 1)
             ELSE Rat(RoundHalfEven(n * Pow2(k), d), Pow2(k))

\* the float nearest to the integer x; an integer of at most SigBits bits
\* is a float
Fl(x) ==
    IF -SigLimit < x /\ x < SigLimit THEN x
    ELSE IF x < 0 THEN -FlRat(-x, 1)[1] ELSE FlRat(x, 1)[1]

\* int(np.ceil(n / d)) for floats n, d > 0: the quotient is rounded first
CeilOfQuotient(n, d) ==
    IF n >= 0
    THEN LET q == FlRat(n, d) IN CeilDiv(q[1], q[2])
    ELSE LET q == FlRat(-n, d) IN -FloorDiv(q[1], q[2])

-----------------------------------------------------------------------------
(* np.exp                                                                   *)

\* exp(-h/2) in hundredths for h = 0, 1, 2, ...: 1, .61, .37, .22, .14,
\* .08, .05, .03, .02, .01, .01, and less than half a hundredth from h = 11.
ExpTable == <<100, 61, 37, 22, 14, 8, 5, 3, 2, 1, 1>>
ExpScale == ExpTable[1]

\* float64: exp(-h/2) is exactly 0 from h = 1491 on (exp(-745) is the
\* smallest denormal, exp(-745.5) underflows)
ExpUnderflow == 1491

\* exp(-h/2) to two decimals, in units of 1/ExpScale, for h >= 0
ExpHundredths(h) == IF h + 1 <= Len(ExpTable) THEN ExpTable[h + 1] ELSE 0

\* the argument of exp(-0.5 * num / den) as h = num / den, rounded down to
\* an integer (exact where den = 1)
ExpArg(num, den) == FloorDiv(num, den)

\* exp(-0.5 * num / den) for num >= 0, den > 0, in units of 1/ExpScale
ExpNegHalf(num, den) == ExpHundredths(ExpArg(num, den))

-----------------------------------------------------------------------------
(* Photon (Stimulus/Light/photon.py)                                        *)

\* dataclass Photon: lambda_nm, and optional x, y, t (None or a value)
Photon(lambda_nm, x, y, t) == [lambda_nm |-> lambda_nm, x |-> x, y |-> y, t |-> t]

-----------------------------------------------------------------------------
(* photon_driver.py                                                         *)

\* Names bound in the module namespace of photon_driver.py when its body
\* runs: the imports of lines 11-20 and the four functions it defines.
\* `from Cells.Retina import cones` binds the module object `cones` only.
DriverGlobals ==
    {"annotations", "List", "Dict", "Optional", "Tuple", "np", "Photon",
     "os", "sys", "cones",
     "_time_bin_index", "_gaussian_psf_weights",
     "build_L_series_for_cones", "build_L_series_for_rods"}

\* variant of _time_bin_index with the window closed at t0 + T
_time_bin_index_closed(t, t0, dt, T) ==
    IF IsNone(t) THEN None
    ELSE IF Val(t) < t0 \/ Val(t) > Fl(t0 + T) THEN None
    ELSE Some(FloorDiv(Fl(Val(t) - t0), dt))

\* _time_bin_index(t, t0, dt, T): None when t is None or outside
\* [t0, t0 + T), else the frame index int((t - t0) // dt).  The sum
\* t0 + T and the difference t - t0 are floats; // is the floor of the
\* quotient of the two floats it is given.
_time_bin_index(t, t0, dt, T) ==
    IF IsNone(t) THEN None
    ELSE IF Val(t) < t0 \/ Val(t) >= Fl(t0 + T) THEN None
    ELSE Some(FloorDiv(Fl(Val(t) - t0), dt))

\* squared distance from (px, py) to receptor p = <<x, y>>
Dist2(px, py, p) == (p[1] - px) * (p[1] - px) + (p[2] - py) * (p[2] - py)

\* variant of ArgMin that returns the last occurrence of the minimum
ArgMinLast(d2) ==
    CHOOSE i \in 1..Len(d2) :
        /\ \A j \in 1..Len(d2) : d2[i] <= d2[j]
        /\ \A j \in (i + 1)..Len(d2) : d2[j] > d2[i]

\* np.argmin: index (1-based here) of the first occurrence of the minimum
ArgMin(d2) ==
    CHOOSE i \in 1..Len(d2) :
        /\ \A j \in 1..Len(d2) : d2[i] <= d2[j]
        /\ \A j \in 1..(i - 1) : d2[j] > d2[i]

\* Does _gaussian_psf_weights raise?  np.argmin of an empty array raises
\* ValueError; every other path returns.
PsfRaises(r, sigma_um) == sigma_um <= 0 /\ Len(r) = 0

\* lines 46-50: w = np.exp(-0.5 * r2 / sigma^2), as a block-floating
\* vector: w[i] = m[i] / ExpScale * exp(-e / 2), where e is the smallest
\* argument h = r2 / sigma^2 of the vector and m[i] the value of
\* exp(-(h[i] - e) / 2) to two decimals.  An entry whose own h is in the
\* underflow range of float64 is exactly 0.
PsfKernel(px, py, r, sigma_um) ==
    LET h == [i \in 1..Len(r) |-> ExpArg(Dist2(px, py, r[i]), sigma_um * sigma_um)]
        e == IF Len(r) = 0 THEN 0
             ELSE h[CHOOSE i \in 1..Len(r) : \A j \in 1..Len(r) : h[i] <= h[j]]
    IN  [e |-> e,
         m |-> [i \in 1..Len(r) |->
                   IF h[i] >= ExpUnderflow THEN 0 ELSE ExpHundredths(h[i] - e)]]

\* variant of PsfGaussian without the division by the sum
PsfGaussianUnnormalized(px, py, r, sigma_um) ==
    LET w == PsfKernel(px, py, r, sigma_um)
    IN  [i \in 1..Len(r) |-> IF w.e = 0 THEN Rat(w.m[i], ExpScale) ELSE RZero]

\* lines 46-54: w = exp(-0.5 r2 / sigma^2); s = w.sum(); if s > 0: w /= s
\* (the common factor exp(-e / 2) of w and s cancels in w / s)
PsfGaussian(px, py, r, sigma_um) ==
    LET w == PsfKernel(px, py, r, sigma_um)
        s == ISum(w.m)
    IN  IF s > 0
        THEN [i \in 1..Len(r) |-> Rat(w.m[i], s)]
        ELSE [i \in 1..Len(r) |-> RZero]

\* lines 38-44: weight 1 on the nearest receptor, 0 elsewhere
PsfNearest(px, py, r) ==
    LET d2 == [i \in 1..Len(r) |-> Dist2(px, py, r[i])]
        nearest == ArgMin(d2)
    IN  [i \in 1..Len(r) |-> IF i = nearest THEN ROne ELSE RZero]

\* _gaussian_psf_weights(px, py, rx, ry, sigma): r is the sequence of the
\* receptor positions <<rx[i], ry[i]>>.  Defined where PsfRaises is false.
_gaussian_psf_weights(px, py, r, sigma_um) ==
    IF sigma_um <= 0
    THEN PsfNearest(px, py, r)
    ELSE PsfGaussian(px, py, r, sigma_um)

\* ------------------------- a direct call of _gaussian_psf_weights ------

Coords == 0..MaxCoord \cup {FarCoord}
ReceptorPoints == {<<0, 0>>, <<1, 0>>, <<MaxCoord, 0>>, <<MaxCoord, 1>>}
Sigmas == {-1, 0, 1}

SeqsUpTo(S, n) == UNION {[1..m -> S] : m \in 0..n}

PsfInit ==
    /\ psf_call \in [px : Coords, py : {0, 1},
                     r : SeqsUpTo(ReceptorPoints, MaxReceptors),
                     sigma_um : Sigmas]
    /\ psf_ret = None

PsfCall ==
    /\ IsNone(psf_ret)
    /\ psf_ret' =
         IF PsfRaises(psf_call.r, psf_call.sigma_um)
         THEN Some([exc |-> "ValueError", w |-> <<>>])
         ELSE Some([exc |-> "",
                    w |-> _gaussian_psf_weights(psf_call.px, psf_call.py,
                                                psf_call.r, psf_call.sigma_um)])
    /\ UNCHANGED psf_call
    /\ UNCHANGED nonPsfVars

-----------------------------------------------------------------------------
(* Cells/Retina/cones.py                                                    *)

ConeMu(cone_type) ==
    CASE cone_type = "L" -> 560 [] cone_type = "M" -> 530
      [] cone_type = "S" -> 420 [] OTHER -> 560
ConeSigma(cone_type) ==
    CASE cone_type = "L" -> 40 [] cone_type = "M" -> 40
      [] cone_type = "S" -> 35 [] OTHER -> 40

\* x * x for x = (lambda_nm - mu) / sigma, rounded down to an integer
ConeArg(lambda_nm, cone_type) ==
    ExpArg((lambda_nm - ConeMu(cone_type)) * (lambda_nm - ConeMu(cone_type)),
           ConeSigma(cone_type) * ConeSigma(cone_type))

\* cone_sensitivity_nm: exp(-0.5 x^2), to two decimals
cone_sensitivity_nm(lambda_nm, cone_type) ==
    Rat(ExpHundredths(ConeArg(lambda_nm, cone_type)), ExpScale)

\* `cone_sensitivity_nm(...) > 0` in float64: the exponential has not
\* underflowed
ConeSensitivityPositive(lambda_nm, cone_type) ==
    ConeArg(lambda_nm, cone_type) < ExpUnderflow

-----------------------------------------------------------------------------
(* photon_driver.py: the two aggregators                                    *)

\* np.zeros((n_steps, N)): n_steps rows of N entries
Zeros(n_steps, N) == [k \in 1..n_steps |-> [i \in 1..N |-> RZero]]

\* n_steps = int(np.ceil(T / dt))
NSteps(p) == CeilOfQuotient(p.T, p.dt)

\* N = 0 if pos is None else (0 if pos.size == 0 else pos.shape[0])
\* an array is Some(<<p1, ..., pN>>), None is None
NumReceptors(pos) == IF IsNone(pos) THEN 0 ELSE Len(Val(pos))

\* variant of AddRow that stores c * w in the row instead of adding it
AddRowOverwrite(L, k, c, w) ==
    [L EXCEPT ![k + 1] = [i \in 1..Len(w) |-> RMul(c, w[i])]]

\* L[k] += c * w for the 0-based row k; rows and w have the same length
AddRow(L, k, c, w) ==
    [L EXCEPT ![k + 1] = [i \in 1..Len(w) |-> RAdd(@[i], RMul(c, w[i]))]]

\* variant of NormalizeClip without the clip
NormalizeNoClip(x, photons_per_L1) ==
    IF photons_per_L1 > 0 THEN RMul(x, Rat(1, photons_per_L1))
    ELSE IF photons_per_L1 = 0 THEN RMul(x, Rat(ExpScale * ExpScale, 1))
    ELSE RMul(x, Rat(1, photons_per_L1))

\* np.clip(x / (photons_per_L1 + eps), 0.0, 1.0) for one entry x >= 0.
\* eps = 1e-12 is far below the resolution of the model: it decides the
\* quotient only where photons_per_L1 = 0 (x / eps >= 1 for every x > 0 of
\* the model, 0 for x = 0); a negative denominator gives a quotient <= 0.
NormalizeClip(x, photons_per_L1) ==
    IF photons_per_L1 > 0
    THEN LET q == RMul(x, Rat(1, photons_per_L1))
         IN  IF RLt(q, RZero) THEN RZero ELSE IF RLt(ROne, q) THEN ROne ELSE q
    ELSE IF photons_per_L1 = 0
    THEN (IF RLt(RZero, x) THEN ROne ELSE RZero)
    ELSE RZero

NormalizeArray(L, photons_per_L1) ==
    [k \in 1..Len(L) |->
        [i \in 1..Len(L[k]) |-> NormalizeClip(L[k][i], photons_per_L1)]]

\* `ph.t if ph.t is not None else t0`
PhotonTime(ph, p) == IF IsNone(ph.t) THEN Some(p.t0) ELSE ph.t

\* ---- build_L_series_for_rods -------------------------------------------

\* lines 169-175, one iteration: the accumulator after photon ph, or the
\* exception the iteration raises.  r is the receptor array (N > 0 here).
RodsPhoton(Lr, ph, r, p) ==
    LET k == _time_bin_index(PhotonTime(ph, p), p.t0, p.dt, p.T)
    IN  IF IsNone(k) \/ IsNone(ph.x) \/ IsNone(ph.y)
        THEN [exc |-> "", L |-> Lr]
        ELSE IF PsfRaises(r, p.sigma_um)
        THEN [exc |-> "ValueError", L |-> Lr]
        ELSE IF Val(k) >= Len(Lr)
        THEN [exc |-> "IndexError", L |-> Lr]
        ELSE [exc |-> "",
              L |-> AddRow(Lr, Val(k), ROne,
                           _gaussian_psf_weights(Val(ph.x), Val(ph.y), r, p.sigma_um))]

\* ---- build_L_series_for_cones ------------------------------------------

ConeTypes == <<"S", "M", "L">>

\* cone_positions.get(tkey, np.zeros((0, 2)))
ConeGet(cone_positions, tkey) ==
    IF tkey \in DOMAIN cone_positions THEN cone_positions[tkey] ELSE Some(<<>>)

\* lines 123-126 (and 127-130, 131-134) for one cone type: `if pos.size:`
\* raises AttributeError on None; then the weights are computed and added
\* when the spectral weight is > 0.
ConeTypeAdd(res, tkey, ph, k, cone_positions, p) ==
    LET pos == ConeGet(cone_positions, tkey)
        wsens == cone_sensitivity_nm(ph.lambda_nm, tkey)
    IN  IF res.exc # "" THEN res
        ELSE IF IsNone(pos) THEN [exc |-> "AttributeError", L |-> res.L]
        ELSE IF Len(Val(pos)) = 0 THEN res
        ELSE IF PsfRaises(Val(pos), p.sigma_um)
        THEN [exc |-> "ValueError", L |-> res.L]
        ELSE IF ~ConeSensitivityPositive(ph.lambda_nm, tkey) THEN res
        ELSE IF k >= Len(res.L[tkey]) THEN [exc |-> "IndexError", L |-> res.L]
        ELSE [exc |-> "",
              L |-> [res.L EXCEPT ![tkey] =
                        AddRow(@, k, wsens,
                               _gaussian_psf_weights(Val(ph.x), Val(ph.y),
                                                     Val(pos), p.sigma_um))]]

\* lines 104-134, one iteration.  Line 118 looks the name
\* cone_sensitivity_nm up in the module namespace.
ConesPhoton(Ls, ph, cone_positions, p) ==
    LET k == _time_bin_index(PhotonTime(ph, p), p.t0, p.dt, p.T)
    IN  IF IsNone(k) THEN [exc |-> "", L |-> Ls]
        ELSE IF IsNone(ph.x) \/ IsNone(ph.y) THEN [exc |-> "", L |-> Ls]
        ELSE IF "cone_sensitivity_nm" \notin DriverGlobals
        THEN [exc |-> "NameError", L |-> Ls]
        ELSE ConeTypeAdd(
                 ConeTypeAdd(
                     ConeTypeAdd([exc |-> "", L |-> Ls],
                                 "S", ph, Val(k), cone_positions, p),
                     "M", ph, Val(k), cone_positions, p),
                 "L", ph, Val(k), cone_positions, p)

\* lines 137-140: `for tkey in ['S','M','L']: if L_series[tkey].size: ...`
\* L_series[tkey] raises KeyError when cone_positions had no such key.
ConesNormalize(Ls, p) ==
    IF \E j \in 1..Len(ConeTypes) : ConeTypes[j] \notin DOMAIN Ls
    THEN [exc |-> "KeyError", L |-> Ls]
    ELSE [exc |-> "",
          L |-> [tkey \in DOMAIN Ls |->
                    NormalizeArray(Ls[tkey], p.photons_per_L1)]]

\* ---- the two functions as a whole ---------------------------------------

RECURSIVE RodsLoop(_, _, _, _)
RodsLoop(Lr, phs, r, p) ==
    IF phs = <<>> THEN [exc |-> "", L |-> Lr]
    ELSE LET res == RodsPhoton(Lr, Head(phs), r, p)
         IN  IF res.exc # "" THEN res ELSE RodsLoop(res.L, Tail(phs), r, p)

\* build_L_series_for_rods: [exc |-> exception or "", L |-> returned array]
build_L_series_for_rods(phs, rod_positions, p) ==
    LET N == NumReceptors(rod_positions)
        Lr == Zeros(NSteps(p), N)
    IN  IF N = 0 THEN [exc |-> "", L |-> Lr]
        ELSE LET res == RodsLoop(Lr, phs, Val(rod_positions), p)
             IN  IF res.exc # "" THEN res
                 ELSE [exc |-> "", L |-> NormalizeArray(res.L, p.photons_per_L1)]

RECURSIVE ConesLoop(_, _, _, _)
ConesLoop(Ls, phs, cone_positions, p) ==
    IF phs = <<>> THEN [exc |-> "", L |-> Ls]
    ELSE LET res == ConesPhoton(Ls, Head(phs), cone_positions, p)
         IN  IF res.exc # "" THEN res
             ELSE ConesLoop(res.L, Tail(phs), cone_positions, p)

\* lines 93-96: one zero array per key of cone_positions
ConesAlloc(cone_positions, p) ==
    [tkey \in DOMAIN cone_positions |->
        Zeros(NSteps(p), NumReceptors(cone_positions[tkey]))]

\* build_L_series_for_cones: [exc |-> exception or "", L |-> returned dict]
build_L_series_for_cones(phs, cone_positions, p) ==
    LET res == ConesLoop(ConesAlloc(cone_positions, p), phs, cone_positions, p)
    IN  IF res.exc # "" THEN res ELSE ConesNormalize(res.L, p)

\* ---- inputs of the checked calls -----------------------------------------

\* receptors laid out on the x axis: (0,0), (1,0), ...
Layout(n) == [i \in 1..n |-> <<i - 1, 0>>]

PhotonTimes == {None, Some(0), Some(MaxTime - 1), Some(MaxTime)}
PhotonUniverse ==
    {Photon(560, Some(0), Some(0), t) : t \in PhotonTimes}
    \cup {Photon(560, Some(1), Some(0), t) : t \in {None, Some(MaxTime - 1)}}
    \cup {Photon(560, Some(FarCoord), Some(0), Some(MaxTime - 1)),
          Photon(560, None, Some(0), Some(MaxTime - 1)),
          Photon(560, Some(0), None, Some(MaxTime - 1)),
          Photon(560, None, None, None)}
PhotonLists == SeqsUpTo(PhotonUniverse, MaxPhotons)

Windows ==
    {[t0 |-> t0, T |-> w[1], dt |-> w[2]] :
        t0 \in {0, 1}, w \in {<<MaxTime, 2>>, <<MaxTime - 1, 1>>}}
        \ {[t0 |-> 0, T |-> MaxTime - 1, dt |-> 1]}
Params(sigmas, ppls) ==
    {[t0 |-> w.t0, T |-> w.T, dt |-> w.dt, sigma_um |-> s, photons_per_L1 |-> c] :
        w \in Windows, s \in sigmas, c \in ppls}

RodPositions == {None} \cup {Some(Layout(n)) : n \in 0..MaxReceptors}
ConeArrays == {None, Some(Layout(0)), Some(Layout(1))}
ConePositions == UNION {[K -> ConeArrays] : K \in SUBSET {"S", "M", "L"}}

AggInit ==
    /\ fn \in {"cones", "rods"}
    /\ photons \in PhotonLists
    /\ positions \in (IF fn = "rods" THEN RodPositions ELSE ConePositions)
    /\ params \in (IF fn = "rods" THEN Params({0, 1}, {-1, 0, 1, 2})
                                  ELSE Params({1}, {1}))
    /\ L_series = <<>>
    /\ idx = 0
    /\ pc = "call"
    /\ exc = ""

\* ---- build_L_series_for_rods, step by step -------------------------------

\* lines 159-164
RodsEnter ==
    /\ fn = "rods" /\ pc = "call"
    /\ L_series' = Zeros(NSteps(params), NumReceptors(positions))
    /\ pc' = IF NumReceptors(positions) = 0 THEN "returned" ELSE "loop"
    /\ UNCHANGED <<fn, photons, positions, params, idx, exc>>
    /\ UNCHANGED nonAggVars

\* lines 169-175: one iteration of `for ph in photons`
RodsStep ==
    /\ fn = "rods" /\ pc = "loop" /\ idx < Len(photons)
    /\ LET res == RodsPhoton(L_series, photons[idx + 1], Val(positions), params)
       IN  /\ L_series' = res.L
           /\ exc' = res.exc
           /\ pc' = IF res.exc # "" THEN "raised" ELSE "loop"
    /\ idx' = idx + 1
    /\ UNCHANGED <<fn, photons, positions, params>>
    /\ UNCHANGED nonAggVars

\* lines 177-178
RodsReturn ==
    /\ fn = "rods" /\ pc = "loop" /\ idx = Len(photons)
    /\ L_series' = NormalizeArray(L_series, params.photons_per_L1)
    /\ pc' = "returned"
    /\ UNCHANGED <<fn, photons, positions, params, idx, exc>>
    /\ UNCHANGED nonAggVars

\* ---- build_L_series_for_cones, step by step ------------------------------

\* lines 91-101
ConesEnter ==
    /\ fn = "cones" /\ pc = "call"
    /\ L_series' = ConesAlloc(positions, params)
    /\ pc' = "loop"
    /\ UNCHANGED <<fn, photons, positions, params, idx, exc>>
    /\ UNCHANGED nonAggVars

\* lines 104-134: one iteration of `for ph in photons`
ConesStep ==
    /\ fn = "cones" /\ pc = "loop" /\ idx < Len(photons)
    /\ LET res == ConesPhoton(L_series, photons[idx + 1], positions, params)
       IN  /\ L_series' = res.L
           /\ exc' = res.exc
           /\ pc' = IF res.exc # "" THEN "raised" ELSE "loop"
    /\ idx' = idx + 1
    /\ UNCHANGED <<fn, photons, positions, params>>
    /\ UNCHANGED nonAggVars

\* lines 136-142
ConesReturn ==
    /\ fn = "cones" /\ pc = "loop" /\ idx = Len(photons)
    /\ LET res == ConesNormalize(L_series, params)
       IN  /\ L_series' = res.L
           /\ exc' = res.exc
           /\ pc' = IF res.exc # "" THEN "raised" ELSE "returned"
    /\ UNCHANGED <<fn, photons, positions, params, idx>>
    /\ UNCHANGED nonAggVars

AggIdle ==
    /\ fn = "none" /\ photons = <<>> /\ positions = None /\ params = <<>>
    /\ L_series = <<>> /\ idx = 0 /\ pc = "idle" /\ exc = ""
PsfIdle == psf_call = <<>> /\ psf_ret = None
ProfIdle == ecc_um = 0 /\ profile = None
PatchIdle == patch_args = <<>> /\ patch = None
SharedIdle == heap = <<>> /\ heap0 = <<>> /\ calls = <<>>

AggNext ==
    \/ RodsEnter \/ RodsStep \/ RodsReturn
    \/ ConesEnter \/ ConesStep \/ ConesReturn

\* the aggregators: build_L_series_for_cones and build_L_series_for_rods
InitAgg == AggInit /\ PsfIdle /\ ProfIdle /\ PatchIdle /\ SharedIdle
SpecAgg == InitAgg /\ [][AggNext]_vars

PsfNext == PsfCall

\* direct calls of _gaussian_psf_weights
InitPsf == PsfInit /\ AggIdle /\ ProfIdle /\ PatchIdle /\ SharedIdle
SpecPsf == InitPsf /\ [][PsfNext]_vars

-----------------------------------------------------------------------------
(* Properties of the aggregators                                            *)

Final == pc \in {"returned", "raised"}

\* what a finished call hands to its caller: the exception, or the arrays
Outcome(res) == IF res.exc # "" THEN [exc |-> res.exc, L |-> <<>>] ELSE res
StateOutcome == Outcome([exc |-> exc, L |-> L_series])

\* what the same function gives on another photon list, all else equal
Run(phs) ==
    Outcome(IF fn = "rods" THEN build_L_series_for_rods(phs, positions, params)
                           ELSE build_L_series_for_cones(phs, positions, params))

\* the arrays of a returned value, as a set of <<type, array>>
Arrays(L) ==
    IF fn = "rods" THEN {<<"rod", L>>}
    ELSE {<<tkey, L[tkey]>> : tkey \in DOMAIN L}
EntriesOf(M) == UNION {{M[k][i] : i \in 1..Len(M[k])} : k \in 1..Len(M)}
Entries(L) == UNION {EntriesOf(a[2]) : a \in Arrays(L)}

\* the photon passes the window test and has both coordinates
Retained(ph, p) ==
    /\ ~IsNone(_time_bin_index(PhotonTime(ph, p), p.t0, p.dt, p.T))
    /\ ~IsNone(ph.x) /\ ~IsNone(ph.y)

Discarded(ph, p) ==
    \/ (~IsNone(ph.t) /\ (Val(ph.t) < p.t0 \/ Val(ph.t) >= p.t0 + p.T))
    \/ IsNone(ph.x)
    \/ IsNone(ph.y)

\* phs with q inserted after its first j elements
Insert(phs, j, q) == SubSeq(phs, 1, j) \o <<q>> \o SubSeq(phs, j + 1, Len(phs))

\* C2: inserting a discarded photon q (arrival time outside the window, or
\* x or y absent) anywhere in the photon list changes neither the returned
\* arrays nor whether (and how) the call raises.
C2_DiscardedPhotonNoEffect ==
    Final =>
        \A q \in {u \in PhotonUniverse : Discarded(u, params)} :
            \A j \in 0..Len(photons) :
                Run(Insert(photons, j, q)) = StateOutcome

\* a rod call whose list mixes a discarded photon with a retained one that
\* left a non-zero entry
C2_Witness ==
    /\ pc = "returned" /\ fn = "rods"
    /\ \E a \in 1..Len(photons) : Discarded(photons[a], params)
    /\ \E b \in 1..Len(photons) : Retained(photons[b], params)
    /\ \E e \in Entries(L_series) : RLt(RZero, e)

\* the list phs rearranged by the permutation f of 1..Len(phs)
Permuted(phs, f) == [a \in 1..Len(phs) |-> phs[f[a]]]

\* element-wise sum of two accumulators of the same shape
MatAdd(A, B) == [k \in 1..Len(A) |-> [i \in 1..Len(A[k]) |-> RAdd(A[k][i], B[k][i])]]

\* the un-normalized accumulator of a shard, then the merge of two shards
\* and the normalization of the merged accumulator
RunSharded(phs, j) ==
    LET A == SubSeq(phs, 1, j)
        B == SubSeq(phs, j + 1, Len(phs))
    IN  IF fn = "rods"
        THEN LET N == NumReceptors(positions)
                 Z == Zeros(NSteps(params), N)
             IN  IF N = 0 THEN [exc |-> "", L |-> Z]
                 ELSE LET ra == RodsLoop(Z, A, Val(positions), params)
                          rb == RodsLoop(Z, B, Val(positions), params)
                      IN  IF ra.exc # "" THEN Outcome(ra)
                          ELSE IF rb.exc # "" THEN Outcome(rb)
                          ELSE [exc |-> "",
                                L |-> NormalizeArray(MatAdd(ra.L, rb.L),
                                                     params.photons_per_L1)]
        ELSE LET Z == ConesAlloc(positions, params)
                 ra == ConesLoop(Z, A, positions, params)
                 rb == ConesLoop(Z, B, positions, params)
             IN  IF ra.exc # "" THEN Outcome(ra)
                 ELSE IF rb.exc # "" THEN Outcome(rb)
                 ELSE Outcome(ConesNormalize(
                          [tkey \in DOMAIN Z |-> MatAdd(ra.L[tkey], rb.L[tkey])],
                          params))

-----------------------------------------------------------------------------
(* Properties of the cone aggregator on retained photons                    *)

\* cone_positions in the documented form {'S': array, 'M': array, 'L': array}
DocumentedConePositions ==
    /\ DOMAIN positions = {"S", "M", "L"}
    /\ \A tkey \in DOMAIN positions : ~IsNone(positions[tkey])

\* the array the single photon ph is to leave for a type with one receptor:
\* min(1, sensitivity / photons_per_L1) in row floor((t - t0) / dt), 0 elsewhere
ExpectedSinglePhoton(ph, tkey, p) ==
    LET k == FloorDiv(Val(PhotonTime(ph, p)) - p.t0, p.dt)
        v == RMul(cone_sensitivity_nm(ph.lambda_nm, tkey), Rat(1, p.photons_per_L1))
    IN  [row \in 1..NSteps(p) |->
            <<IF row = k + 1 THEN (IF RLt(ROne, v) THEN ROne ELSE v) ELSE RZero>>]

\* C4: a cone call with one retained photon, psf_sigma > 0 and a cone type
\* with exactly one receptor completes, and that type's array holds
\* min(1, sensitivity / photons_per_L1) in the photon's row and 0 elsewhere.
C4_SinglePhotonCones ==
    (/\ Final /\ fn = "cones" /\ DocumentedConePositions
     /\ Len(photons) = 1 /\ Retained(photons[1], params)
     /\ params.sigma_um > 0 /\ params.photons_per_L1 > 0)
    => \A tkey \in DOMAIN positions :
          NumReceptors(positions[tkey]) = 1 =>
              /\ pc = "returned"
              /\ L_series[tkey] = ExpectedSinglePhoton(photons[1], tkey, params)

\* the shape np.zeros((n_steps, N)) and the all-zero content
HasShape(M, n_steps, N) == Len(M) = n_steps /\ \A k \in 1..Len(M) : Len(M[k]) = N

\* C7: with a receptor type that has zero receptors the aggregator returns
\* without raising, for every photon list, and that type's array has
\* ceil(T/dt) rows and zero columns; with zero photons every returned array
\* is all zeros of shape (ceil(T/dt), number of receptors of the type).
C7_DegeneratePopulations ==
    (Final /\ (fn = "cones" => DocumentedConePositions)) =>
        /\ (fn = "rods" /\ NumReceptors(positions) = 0) =>
              pc = "returned" /\ HasShape(L_series, NSteps(params), 0)
        /\ fn = "cones" =>
              \A tkey \in DOMAIN positions :
                  NumReceptors(positions[tkey]) = 0 =>
                      pc = "returned" /\ HasShape(L_series[tkey], NSteps(params), 0)
        /\ photons = <<>> =>
              /\ pc = "returned"
              /\ \A a \in Arrays(L_series) :
                    a[2] = Zeros(NSteps(params),
                                 NumReceptors(IF fn = "rods" THEN positions
                                              ELSE positions[a[1]]))

-----------------------------------------------------------------------------
(* Properties of _gaussian_psf_weights                                      *)

PsfReturned == ~IsNone(psf_ret) /\ Val(psf_ret).exc = ""
PsfW == Val(psf_ret).w
PsfD2 == [i \in 1..Len(psf_call.r) |-> Dist2(psf_call.px, psf_call.py, psf_call.r[i])]

\* the kernel value exp(-0.5 d^2 / sigma^2) of receptor i is not zero:
\* d^2 / sigma^2 is below the underflow range of float64
KernelNonZero(i) ==
    PsfD2[i] < ExpUnderflow * psf_call.sigma_um * psf_call.sigma_um

C6_NearestNeighbour ==
    (PsfReturned /\ psf_call.sigma_um <= 0 /\ Len(psf_call.r) > 0) =>
        /\ Len(PsfW) = Len(psf_call.r)
        /\ \A i \in 1..Len(PsfW) :
              PsfW[i] =
                  IF /\ \A j \in 1..Len(PsfW) : PsfD2[i] <= PsfD2[j]
                     /\ \A j \in 1..(i - 1) : PsfD2[j] > PsfD2[i]
                  THEN ROne ELSE RZero
        /\ Cardinality({i \in 1..Len(PsfW) : PsfW[i] = ROne}) = 1

\* a nearest-neighbour call with two different receptors at the same
\* distance from the photon: the first one got the weight
C6_Witness ==
    /\ PsfReturned /\ psf_call.sigma_um <= 0 /\ Len(psf_call.r) = 2
    /\ psf_call.r[1] # psf_call.r[2] /\ PsfD2[1] = PsfD2[2]
    /\ PsfW = <<ROne, RZero>>

-----------------------------------------------------------------------------
(* PrimaryVisualPathway/NeuralRetina/MaculaLutea/input_layer.py             *)

MaxEcc == 6000       \* eccentricities 0..MaxEcc (um)

\* lines 34-51: cone density, rod density (cells/mm^2) and the L:M:S ratio
\* (in hundredths) of the band of ecc
ProfileBand(ecc) ==
    IF ecc < 100 THEN [cone |-> 200000, rod |-> 0, lms |-> <<50, 50, 0>>]
    ELSE IF ecc < 350 THEN [cone |-> 180000, rod |-> 0, lms |-> <<48, 48, 4>>]
    ELSE IF ecc < 1500 THEN [cone |-> 100000, rod |-> 20000, lms |-> <<50, 45, 5>>]
    ELSE IF ecc < 2750 THEN [cone |-> 40000, rod |-> 100000, lms |-> <<50, 43, 7>>]
    ELSE IF ecc < 5500 THEN [cone |-> 15000, rod |-> 150000, lms |-> <<50, 42, 8>>]
    ELSE [cone |-> 5000, rod |-> 120000, lms |-> <<48, 44, 8>>]

\* variant of ConeTypeShare that leaves out the factor p_cone
ConeTypeShareOfCones(p_cone, ratio, s) == Rat(ratio, s)

\* lines 65-67: p_cone * (ratio / s)
ConeTypeShare(p_cone, ratio, s) == RMul(p_cone, Rat(ratio, s))

\* photoreceptor_profile(ecc_um)
photoreceptor_profile(ecc) ==
    LET b == ProfileBand(ecc)
        total == b.cone + b.rod
        \* s = max(1e-12, L + M + S): only a sum that is not positive is
        \* replaced (by a value below the resolution of the ratios)
        sum == b.lms[1] + b.lms[2] + b.lms[3]
        s == IF sum > 0 THEN sum ELSE 1
        p_cone == Rat(b.cone, total)
        p_rod == Rat(b.rod, total)
    IN  IF total = 0
        THEN [cone |-> RZero, rod |-> RZero,
              cone_types |-> [L |-> RZero, M |-> RZero, S |-> RZero]]
        ELSE [cone |-> p_cone, rod |-> p_rod,
              cone_types |-> [L |-> ConeTypeShare(p_cone, b.lms[1], s),
                              M |-> ConeTypeShare(p_cone, b.lms[2], s),
                              S |-> ConeTypeShare(p_cone, b.lms[3], s)]]

ProfInit == ecc_um \in 0..MaxEcc /\ profile = None

ProfCall ==
    /\ IsNone(profile)
    /\ profile' = Some(photoreceptor_profile(ecc_um))
    /\ UNCHANGED ecc_um
    /\ UNCHANGED nonProfVars

InitProf == ProfInit /\ AggIdle /\ PsfIdle /\ PatchIdle /\ SharedIdle
ProfNext == ProfCall

\* calls of photoreceptor_profile
SpecProf == InitProf /\ [][ProfNext]_vars

\* C8: for every eccentricity >= 0 the profile has cone >= 0, rod >= 0,
\* cone + rod = 1, non-negative fractions L, M, S whose sum is the cone
\* probability, and is never the all-zero record.
C8_ProfileNormalized ==
    (~IsNone(profile) /\ ecc_um >= 0) =>
        LET pr == Val(profile)
            ct == pr.cone_types
        IN  /\ RLe(RZero, pr.cone) /\ RLe(RZero, pr.rod)
            /\ RAdd(pr.cone, pr.rod) = ROne
            /\ RLe(RZero, ct.L) /\ RLe(RZero, ct.M) /\ RLe(RZero, ct.S)
            /\ RAdd(ct.L, RAdd(ct.M, ct.S)) = pr.cone
            /\ ~(pr.cone = RZero /\ pr.rod = RZero)

\* the profile at a band boundary where rods and all three cone types occur
C8_Witness ==
    /\ ~IsNone(profile) /\ ecc_um = 2750
    /\ Val(profile).rod = Rat(150000, 165000)
    /\ RLt(RZero, Val(profile).cone_types.S)
    /\ RAdd(Val(profile).cone_types.L,
            RAdd(Val(profile).cone_types.M, Val(profile).cone_types.S))
         = Rat(15000, 165000)


-----------------------------------------------------------------------------
(* Utils/hexagonal_layer.py                                                 *)

MaxRadius == 2       \* radius_um in -1..MaxRadius
MaxPitch == 2        \* pitch_um in 0..MaxPitch
MaxCenter == 2       \* center coordinates in {-MaxCenter, 0, MaxCenter}
MaxSeed == 1         \* seeds 0..MaxSeed, and None

\* Numbers a + b*sqrt(3) with integer a, b are pairs <<a, b>>: the rows of
\* a hexagonal grid are sqrt(3)/2 pitches apart.
S3Sign(v) ==
    LET g == GCD(Abs(v[1]), Abs(v[2]))
        a == IF g = 0 THEN 0 ELSE v[1] \div g
        b == IF g = 0 THEN 0 ELSE v[2] \div g
    IN  IF a = 0 /\ b = 0 THEN 0
        ELSE IF a >= 0 /\ b >= 0 THEN 1
        ELSE IF a <= 0 /\ b <= 0 THEN -1
        ELSE IF a > 0 THEN (IF a * a > 3 * b * b THEN 1 ELSE -1)
        ELSE (IF 3 * b * b > a * a THEN 1 ELSE -1)

S3Sub(v, w) == <<v[1] - w[1], v[2] - w[2]>>

\* a point: x an integer, y a number a + b*sqrt(3)
Point(x, y) == [x |-> x, y |-> y]

\* line 61: nx = int(ceil(width / pitch)) + 2, width = 2 * radius
GridNx(radius_um, pitch_um) == CeilDiv(2 * radius_um, pitch_um) + 2

\* line 62: ny = int(ceil(height / (pitch * sqrt(3) / 2))) + 2: the ceiling
\* is the least n with n * pitch * sqrt(3) / 2 >= 2 * radius
GridNy(radius_um, pitch_um) ==
    (CHOOSE n \in 0..(4 * radius_um) :
        /\ 3 * n * n * pitch_um * pitch_um >= 16 * radius_um * radius_um
        /\ \A m \in 0..(n - 1) :
              3 * m * m * pitch_um * pitch_um < 16 * radius_um * radius_um)
    + 2

\* line 64: create_hex_grid(nx, ny, min_diam) of the hexalattice library:
\* ny rows of nx points, row after row; odd rows are shifted by half a
\* pitch; the grid is aligned to the point in the middle.  x is in half
\* pitches, y in row distances (sqrt(3)/2 pitches).
create_hex_grid(nx, ny) ==
    LET mid_x == 2 * (CeilDiv(nx, 2) - 1)
                   + (IF CeilDiv(ny, 2) % 2 = 0 THEN 1 ELSE 0)
        mid_y == CeilDiv(ny, 2) - 1
    IN  [k \in 1..(nx * ny) |->
            LET i == (k - 1) % nx
                j == (k - 1) \div nx
            IN  <<2 * i + (j % 2) - mid_x, j - mid_y>>]

\* lines 67-68: coords -= coords.mean().  The result is in units of
\* pitch / (2 ny) for x and of sqrt(3) pitch / 4 for y; both divisions are
\* exact for the grids of create_hex_grid.
CenterGrid(g, nx, ny) ==
    LET n == nx * ny
        sx == ISum([k \in 1..n |-> g[k][1]])
        sy == ISum([k \in 1..n |-> g[k][2]])
    IN  [k \in 1..n |-> <<(n * g[k][1] - sx) \div nx,
                          (2 * n * g[k][2] - 2 * sy) \div n>>]

\* The coordinates are kept as integers in units of 1/(2 ny) um.
PatchScale(ny) == 2 * ny

\* a centred grid point in units of 1/(2 ny) um
ScaledPoint(c, pitch_um, ny) ==
    Point(pitch_um * c[1], <<0, (pitch_um * ny * c[2]) \div 2>>)

\* variant of InMask that keeps the bounding square of the circle
InMaskSquare(pt, radius_um, scale) ==
    /\ Abs(pt.x) <= scale * radius_um
    /\ 3 * pt.y[2] * pt.y[2] <= scale * scale * radius_um * radius_um

\* lines 70-71: x**2 + y**2 <= radius**2
InMask(pt, radius_um, scale) ==
    pt.x * pt.x + 3 * pt.y[2] * pt.y[2]
        <= scale * scale * radius_um * radius_um

\* line 76: rng.normal(0, jitter, size): draw number axis of row k of the
\* generator seeded with stream, in units of jitter_um; a draw is one of
\* -1, 0, 1
Normal(stream, k, axis) == (((stream + 1) * (2 * k + axis + 1)) % 3) - 1

\* lines 74-76: coords += rng.normal(0.0, jitter_um, size=coords.shape)
Jitter(cs, jitter_um, stream, scale) ==
    IF jitter_um > 0
    THEN [k \in 1..Len(cs) |->
            Point(cs[k].x + scale * jitter_um * Normal(stream, k, 0),
                  <<cs[k].y[1] + scale * jitter_um * Normal(stream, k, 1),
                    cs[k].y[2]>>)]
    ELSE cs

\* lines 78-79: coords += center
Translate(cs, center, scale) ==
    [k \in 1..Len(cs) |->
        Point(cs[k].x + scale * center[1],
              <<cs[k].y[1] + scale * center[2], cs[k].y[2]>>)]

\* line 82: arctan2(y, x) takes values in (-pi, pi]; ThetaClass is the part
\* of that range the angle is in: below 0, 0 (also for the origin), between
\* 0 and pi, pi
ThetaClass(pt) ==
    LET s == S3Sign(pt.y)
    IN  IF s < 0 THEN 0
        ELSE IF s > 0 THEN 2
        ELSE IF pt.x >= 0 THEN 1 ELSE 3

\* the sign of p.x * q.y - p.y * q.x
Cross(p, q) ==
    S3Sign(<<p.x * q.y[1] - p.y[1] * q.x, p.x * q.y[2] - p.y[2] * q.x>>)

\* -1, 0, 1 as arctan2 of p is below, equal to, above arctan2 of q
ThetaCmp(p, q) ==
    IF ThetaClass(p) /= ThetaClass(q)
    THEN (IF ThetaClass(p) < ThetaClass(q) THEN -1 ELSE 1)
    ELSE IF ThetaClass(p) \in {1, 3} THEN 0
    ELSE -Cross(p, q)

\* line 81: r = sqrt(x**2 + y**2), compared by its square
Norm2(pt) ==
    <<pt.x * pt.x + pt.y[1] * pt.y[1] + 3 * pt.y[2] * pt.y[2],
      2 * pt.y[1] * pt.y[2]>>

RCmp(p, q) == S3Sign(S3Sub(Norm2(p), Norm2(q)))

\* line 83: the order of np.lexsort((r, theta)): by theta, then by r
LexLess(p, q) ==
    \/ ThetaCmp(p, q) < 0
    \/ ThetaCmp(p, q) = 0 /\ RCmp(p, q) < 0

RECURSIVE LexSort(_)
\* lines 83-84: coords[np.lexsort((r, theta))], a stable sort
LexSort(cs) ==
    IF cs = <<>> THEN <<>>
    ELSE LET m == CHOOSE k \in 1..Len(cs) :
                    /\ \A l \in 1..Len(cs) : ~LexLess(cs[l], cs[k])
                    /\ \A l \in 1..(k - 1) : LexLess(cs[k], cs[l])
         IN  <<cs[m]>> \o LexSort([k \in 1..(Len(cs) - 1) |->
                                     IF k < m THEN cs[k] ELSE cs[k + 1]])

\* the HexPatch dataclass (lines 20-29); scale is the number of units of
\* coords in 1 um
HexPatch(a, coords, scale) ==
    [exc |-> "", radius_um |-> a.radius_um, pitch_um |-> a.pitch_um,
     jitter_um |-> a.jitter_um, seed |-> a.seed, center |-> a.center,
     coords |-> coords, scale |-> scale]

\* make_hex_circular_patch(radius_um, pitch_um, jitter_um, seed, center);
\* stream is the state np.random.default_rng(seed) starts in
make_hex_circular_patch(a, stream) ==
    IF a.radius_um <= 0 THEN HexPatch(a, <<>>, 1)
    ELSE IF a.pitch_um = 0
    THEN [HexPatch(a, <<>>, 1) EXCEPT !.exc = "ZeroDivisionError"]
    ELSE
        LET nx == GridNx(a.radius_um, a.pitch_um)
            ny == GridNy(a.radius_um, a.pitch_um)
            scale == PatchScale(ny)
            g == CenterGrid(create_hex_grid(nx, ny), nx, ny)
            all == [k \in 1..(nx * ny) |-> ScaledPoint(g[k], a.pitch_um, ny)]
            masked == SelectSeq(all, LAMBDA pt : InMask(pt, a.radius_um, scale))
            jittered == Jitter(masked, a.jitter_um, stream, scale)
            moved == Translate(jittered, a.center, scale)
        IN  HexPatch(a, LexSort(moved), scale)

Seeds == {None} \cup {Some(s) : s \in 0..MaxSeed}
Centers == {-MaxCenter, 0, MaxCenter} \X {-MaxCenter, 0, MaxCenter}

PatchInit ==
    /\ patch_args \in [radius_um : -1..MaxRadius, pitch_um : 0..MaxPitch,
                       jitter_um : {0, 1}, seed : Seeds, center : Centers]
    /\ patch = None

\* a call of make_hex_circular_patch; an unseeded generator starts in any
\* state
PatchCall ==
    /\ IsNone(patch)
    /\ \E stream \in 0..MaxSeed :
          /\ IF IsNone(patch_args.seed) THEN TRUE
             ELSE stream = Val(patch_args.seed)
          /\ patch' = Some(make_hex_circular_patch(patch_args, stream))
    /\ UNCHANGED patch_args
    /\ UNCHANGED nonPatchVars

InitPatch == PatchInit /\ AggIdle /\ PsfIdle /\ ProfIdle /\ SharedIdle
PatchNext == PatchCall

\* calls of make_hex_circular_patch
SpecPatch == InitPatch /\ [][PatchNext]_vars

PatchReturned == ~IsNone(patch) /\ Val(patch).exc = ""

\* the coordinates of pt relative to the centre of the patch
FromCenter(pt, center, scale) ==
    Point(pt.x - scale * center[1],
          <<pt.y[1] - scale * center[2], pt.y[2]>>)

\* the distance of pt from the centre of the patch is at most radius_um
WithinRadius(pt, center, radius_um, scale) ==
    S3Sign(S3Sub(Norm2(FromCenter(pt, center, scale)),
                 <<scale * scale * radius_um * radius_um, 0>>)) <= 0

\* C9: a patch of radius <= 0 has no coordinates; with radius > 0,
\* pitch > 0 and jitter = 0, for every seed and every centre, every
\* coordinate lies within the radius of the centre.
C9_WithinRadiusOfCenter ==
    PatchReturned =>
        LET h == Val(patch)
        IN  /\ h.radius_um <= 0 => h.coords = <<>>
            /\ (h.radius_um > 0 /\ h.pitch_um > 0 /\ h.jitter_um = 0) =>
                  \A k \in 1..Len(h.coords) :
                      WithinRadius(h.coords[k], h.center, h.radius_um,
                                   h.scale)

\* a patch away from the origin: the mask has removed grid points, has
\* kept more than the central ones, and a kept point is farther than
\* radius_um from the origin
C9_Witness ==
    /\ PatchReturned
    /\ patch_args.radius_um = 2 /\ patch_args.pitch_um = 1
    /\ patch_args.jitter_um = 0 /\ patch_args.center = <<2, -2>>
    /\ Len(Val(patch).coords) > 6
    /\ Len(Val(patch).coords)
         < GridNx(2, 1) * GridNy(2, 1)
    /\ \E k \in 1..Len(Val(patch).coords) :
          ~WithinRadius(Val(patch).coords[k], <<0, 0>>, 2, Val(patch).scale)

\* C10: for every centre the coordinates are sorted by the polar angle
\* around the centre of the patch and, at equal angle, by increasing
\* distance from the centre of the patch.
C10_SortedAboutCenter ==
    PatchReturned =>
        LET h == Val(patch)
            rel(k) == FromCenter(h.coords[k], h.center, h.scale)
        IN  \A k \in 1..(Len(h.coords) - 1) : ~LexLess(rel(k + 1), rel(k))

-----------------------------------------------------------------------------
(* photon_driver.py: two aggregator calls on shared inputs                  *)

\* The objects of the two calls: the receptor coordinates both calls are
\* given, a photon list for each, and the arrays the calls allocate.
InputRefs == {"positions", "photons1", "photons2"}
OutputRefs == {"array1", "array2"}
Calls == {1, 2}

\* np.zeros (lines 96, 161) allocates an object no one else refers to
Allocate(h) == IF "array1" \notin DOMAIN h THEN "array1" ELSE "array2"

\* the heap h with the new object r of value v
Extend(h, r, v) == [q \in DOMAIN h \cup {r} |-> IF q = r THEN v ELSE h[q]]

\* variant of PsfInputAfter that computes dx, dy in the views it is given
PsfInputInPlace(px, py, r, sigma_um) ==
    [i \in 1..Len(r) |-> <<r[i][1] - px, r[i][2] - py>>]

\* lines 40, 46-48: what _gaussian_psf_weights leaves in the views
\* rx_um, ry_um of the coordinate array it is given: `rx_um - px_um` and
\* np.zeros_like build new arrays, `w /= s` and `w[idx] = 1.0` write to
\* those, so the views are as before
PsfInputAfter(px, py, r, sigma_um) == r

\* the photon reaches the call of _gaussian_psf_weights of the rod loop
RodsCallsPsf(ph, p) ==
    /\ ~IsNone(_time_bin_index(PhotonTime(ph, p), p.t0, p.dt, p.T))
    /\ ~IsNone(ph.x) /\ ~IsNone(ph.y)

\* the coordinate object after one iteration of a loop (lines 104-134,
\* 169-175): the rod loop hands views of it to _gaussian_psf_weights; the
\* cone loop is ended by line 118 before it does
PositionsAfter(f, ph, pos, p) ==
    IF f = "rods" /\ RodsCallsPsf(ph, p)
    THEN Some(PsfInputAfter(Val(ph.x), Val(ph.y), Val(pos), p.sigma_um))
    ELSE pos

SharedPhotons ==
    {Photon(560, Some(0), Some(0), None),
     Photon(560, Some(1), Some(0), Some(MaxTime - 1)),
     Photon(560, Some(0), Some(0), Some(MaxTime))}
SharedPhotonLists == SeqsUpTo(SharedPhotons, MaxPhotons)
SharedParams ==
    {[t0 |-> 0, T |-> MaxTime, dt |-> 2, sigma_um |-> s, photons_per_L1 |-> 2] :
        s \in {0, 1}}
SharedPositions(f) ==
    IF f = "rods" THEN {Some(Layout(n)) : n \in 0..MaxReceptors}
    ELSE {[tkey \in {"S", "M", "L"} |-> Some(Layout(IF tkey = k THEN 1 ELSE 0))] :
             k \in {"S", "L"}}

\* two calls of the same aggregator are made with the same coordinate
\* object, and with the same photon list or with two lists
SharedInit ==
    /\ \E f \in {"rods", "cones"} :
          /\ \E pos \in SharedPositions(f) :
             \E l1 \in SharedPhotonLists, l2 \in SharedPhotonLists :
                heap = [r \in InputRefs |->
                           IF r = "positions" THEN pos
                           ELSE IF r = "photons1" THEN l1 ELSE l2]
          /\ calls \in [Calls -> [fn : {f}, photons : {"photons1", "photons2"},
                                  positions : {"positions"}, params : SharedParams,
                                  out : {None}, idx : {0}, pc : {"call"},
                                  exc : {""}]]
    /\ calls[1].photons = "photons1"
    /\ calls[2].photons = "photons1" => heap["photons2"] = <<>>
    /\ heap0 = heap

\* lines 91-101, 159-164 of call c
CallEnter(c) ==
    LET f == calls[c]
        pos == heap[f.positions]
        out == Allocate(heap)
    IN  /\ f.pc = "call"
        /\ heap' = Extend(heap, out,
                           IF f.fn = "rods"
                           THEN Zeros(NSteps(f.params), NumReceptors(pos))
                           ELSE ConesAlloc(pos, f.params))
        /\ calls' = [calls EXCEPT ![c].out = Some(out),
                        ![c].pc = IF f.fn = "rods" /\ NumReceptors(pos) = 0
                                  THEN "returned" ELSE "loop"]
        /\ UNCHANGED heap0
        /\ UNCHANGED nonSharedVars

\* lines 104-134, 169-175: one iteration of `for ph in photons` of call c
CallStep(c) ==
    LET f == calls[c]
        pos == heap[f.positions]
        ph == heap[f.photons][f.idx + 1]
        res == IF f.fn = "rods"
               THEN RodsPhoton(heap[Val(f.out)], ph, Val(pos), f.params)
               ELSE ConesPhoton(heap[Val(f.out)], ph, pos, f.params)
    IN  /\ f.pc = "loop" /\ f.idx < Len(heap[f.photons])
        /\ heap' = [heap EXCEPT ![Val(f.out)] = res.L,
                                ![f.positions] = PositionsAfter(f.fn, ph, pos, f.params)]
        /\ calls' = [calls EXCEPT ![c].idx = f.idx + 1, ![c].exc = res.exc,
                        ![c].pc = IF res.exc # "" THEN "raised" ELSE "loop"]
        /\ UNCHANGED heap0
        /\ UNCHANGED nonSharedVars

\* lines 136-142, 177-178 of call c
CallReturn(c) ==
    LET f == calls[c]
        res == IF f.fn = "rods"
               THEN [exc |-> "",
                     L |-> NormalizeArray(heap[Val(f.out)], f.params.photons_per_L1)]
               ELSE ConesNormalize(heap[Val(f.out)], f.params)
    IN  /\ f.pc = "loop" /\ f.idx = Len(heap[f.photons])
        /\ heap' = [heap EXCEPT ![Val(f.out)] = res.L]
        /\ calls' = [calls EXCEPT ![c].exc = res.exc,
                        ![c].pc = IF res.exc # "" THEN "raised" ELSE "returned"]
        /\ UNCHANGED heap0
        /\ UNCHANGED nonSharedVars

Enter == \E c \in Calls : CallEnter(c)
Step == \E c \in Calls : CallStep(c)
Return == \E c \in Calls : CallReturn(c)

SharedNext == Enter \/ Step \/ Return

\* two interleaved aggregator calls on shared inputs
InitShared == SharedInit /\ AggIdle /\ PsfIdle /\ ProfIdle /\ PatchIdle
SpecShared == InitShared /\ [][SharedNext]_vars

CallFinal(c) == calls[c].pc \in {"returned", "raised"}

\* what call c hands to its caller
CallOutcome(c) ==
    Outcome([exc |-> calls[c].exc, L |-> heap[Val(calls[c].out)]])

\* what call c returns when it runs alone on the inputs as they were given
RunAlone(c) ==
    LET f == calls[c]
    IN  Outcome(IF f.fn = "rods"
                THEN build_L_series_for_rods(heap0[f.photons], heap0[f.positions],
                                             f.params)
                ELSE build_L_series_for_cones(heap0[f.photons], heap0[f.positions],
                                              f.params))

\* C11: an aggregator call leaves the photon records, the photon list and
\* the receptor coordinates as they were and writes only to arrays it
\* allocated itself, so each of two interleaved calls on the same
\* coordinates returns what it returns when run alone.
C11_InputsReadOnlyOutputsOwned ==
    /\ \A r \in InputRefs : heap[r] = heap0[r]
    /\ \A c \in Calls :
          /\ ~IsNone(calls[c].out) =>
                /\ Val(calls[c].out) \notin InputRefs
                /\ \A d \in Calls \ {c} : calls[d].out # calls[c].out
          /\ CallFinal(c) => CallOutcome(c) = RunAlone(c)

\* two rod calls on the same two receptors: the first has returned an array
\* with a non-zero entry while the second, entered and with one photon
\* accumulated, is still inside its loop
C11_Witness ==
    /\ calls[1].fn = "rods" /\ NumReceptors(heap["positions"]) = 2
    /\ calls[1].pc = "returned"
    /\ \E e \in EntriesOf(heap[Val(calls[1].out)]) : RLt(RZero, e)
    /\ calls[2].pc = "loop" /\ calls[2].idx = 1
    /\ Len(heap[calls[2].photons]) = 2
    /\ \E e \in EntriesOf(heap[Val(calls[2].out)]) : RLt(RZero, e)
    /\ CallOutcome(1) = RunAlone(1)

-----------------------------------------------------------------------------
(* photon_driver.py: windows and arrival times that are not small integers  *)

\* the floats around the window boundaries
FloatGrid ==
    {x \in (-Pow2(SigBits) - 1)..(3 * Pow2(SigBits)) : Fl(x) = x}

WinPhotons ==
    {Photon(560, Some(0), Some(0), t) : t \in {None} \cup {Some(x) : x \in FloatGrid}}

\* windows <<T, dt>> of one to four rows
WinSteps ==
    {<<1, 1>>, <<3, 2>>, <<3, 1>>, <<Pow2(SigBits), Pow2(SigBits)>>,
     <<2 * Pow2(SigBits), Pow2(SigBits)>>, <<Pow2(SigBits), Pow2(SigBits - 2)>>}

WinParams ==
    {[t0 |-> t0, T |-> w[1], dt |-> w[2], sigma_um |-> 1, photons_per_L1 |-> 1] :
        t0 \in {-Pow2(SigBits), 0, 1, 2 * Pow2(SigBits)}, w \in WinSteps}

\* an aggregator call with at most one photon on one receptor at the
\* photon's position
WinInit ==
    /\ fn \in {"cones", "rods"}
    /\ photons \in SeqsUpTo(WinPhotons, 1)
    /\ positions = (IF fn = "rods" THEN Some(Layout(1))
                    ELSE [tkey \in {"S", "M", "L"} |->
                             Some(Layout(IF tkey = "L" THEN 1 ELSE 0))])
    /\ params \in WinParams
    /\ L_series = <<>>
    /\ idx = 0
    /\ pc = "call"
    /\ exc = ""

\* the aggregators on windows and arrival times around the window boundaries
InitWin == WinInit /\ PsfIdle /\ ProfIdle /\ PatchIdle /\ SharedIdle
SpecWin == InitWin /\ [][AggNext]_vars

\* C12: with dt > 0 and T > 0 the output has ceil(T/dt) rows, and every
\* photon that passes the window test gets the bin floor((t - t0)/dt), which
\* is a row of the output: 0 <= bin <= ceil(T/dt) - 1; accumulation never
\* indexes outside the output array.
C12_BinIndexIsValidRow ==
    (Final /\ params.dt > 0 /\ params.T > 0) =>
        LET n == CeilDiv(params.T, params.dt)
        IN  /\ exc # "IndexError"
            /\ pc = "returned" =>
                  \A a \in Arrays(L_series) : Len(a[2]) = n
            /\ \A j \in 1..Len(photons) :
                  LET t == PhotonTime(photons[j], params)
                      k == _time_bin_index(t, params.t0, params.dt, params.T)
                  IN  ~IsNone(k) =>
                         /\ Val(k) = FloorDiv(Val(t) - params.t0, params.dt)
                         /\ 0 <= Val(k) /\ Val(k) <= n - 1

\* what one photon at the position of the single receptor leaves in the
\* array of that receptor when it is accumulated into row 0
InRowZero(n_steps) ==
    [row \in 1..n_steps |-> <<IF row = 1 THEN ROne ELSE RZero>>]

\* C13: a photon with no arrival time and with x and y present is treated,
\* for any window with T > 0 and any t0, as arriving at t0: its contribution
\* is accumulated into row 0, by the cone and by the rod aggregator.
C13_NoArrivalTimeGoesToRowZero ==
    (/\ Final /\ params.T > 0 /\ params.dt > 0
     /\ Len(photons) = 1 /\ IsNone(photons[1].t)
     /\ ~IsNone(photons[1].x) /\ ~IsNone(photons[1].y))
    => /\ pc = "returned"
       /\ L_series = (IF fn = "rods" THEN InRowZero(NSteps(params))
                      ELSE [tkey \in {"S", "M", "L"} |->
                               IF tkey = "L" THEN InRowZero(NSteps(params))
                               ELSE Zeros(NSteps(params), 0)])
=============================================================================
